---------------------------- MODULE Spec2Model ----------------------------
(***************************************************************************)
(* Model of binary-telemetry-storage: data_insert.py (the accumulation     *)
(* loop and the dual storage writer) followed by data_retrieval.py (the    *)
(* benchmark of the row and the blob representation under a full scan and  *)
(* a year-range-filtered scan).                                            *)
(*                                                                         *)
(* Scales.  A timestamp is a UTC instant counted in ticks, TicksPerYear    *)
(* ticks to the calendar year, so the year of instant t is                 *)
(* t \div TicksPerYear.  A float is a number of hundredths (NDBC prints    *)
(* two decimals); NaN is the sentinel NaN.  One model row stands for a     *)
(* block of observations of MBPerRow megabytes, so that a few stations     *)
(* reach the 500 MB budget.  availabe_ids is 1..NumAvailableIds, a small   *)
(* stand-in for the hard-coded range(1, 58); it is kept below NumStations  *)
(* so that storage can hold fewer, as many and more Datasets than the      *)
(* scan expects.                                                           *)
(*                                                                         *)
(* Environment.  The provider may return any table of DataDicts, raise,    *)
(* or be interrupted; the store may fail at any statement of the writer.   *)
(* connect_pg sets no TimeZone, so the benchmark's session runs in the     *)
(* server's default zone: session_tz is its offset from UTC in ticks.      *)
(* PostgreSQL evaluates extract(YEAR from date) of a timestamptz column in *)
(* that zone, while pandas takes .dt.year of the UTC-converted column.     *)
(***************************************************************************)
EXTENDS Integers, Sequences, FiniteSets, TLC

\* ------------------------------------------------------------- bounds
NumStations == 3
NumAvailableIds == 2
TicksPerYear == 2
MBPerRow == 100

\* -------------------------------------------------- program constants
mem_desired == 500
NaN == -1
NaT == -1
NULL == -2

REQUIRED_COLUMNS == {"WVHT", "DPD"}
RENAME == [WVHT |-> "hm0", DPD |-> "tp"]

\* enumerate(found): the eligible stations, in discovery order.
found == [i \in 1..NumStations |-> i]

\* availabe_ids = list(range(1, 58)), scaled.
availabe_ids == [i \in 1..NumAvailableIds |-> i]

\* ------------------------------------------------------------ helpers
Min(S) == CHOOSE x \in S : \A y \in S : x <= y
Max(S) == CHOOSE x \in S : \A y \in S : x >= y

RECURSIVE Flatten(_)
Flatten(ss) == IF ss = <<>> THEN <<>> ELSE Head(ss) \o Flatten(Tail(ss))

\* ----------------------------------------------- the provider's tables
\* One raw NDBC line: the date fields and the two required columns, as text.
Raw(y, k, w, d) == [YY |-> y, TK |-> k, WVHT |-> w, DPD |-> d]

\* What ndbc.request_data may return for a station: the year tables in
\* file order.
DataDicts ==
    { \* two years, newest first, first reading on a year boundary
      << <<Raw(2, 1, "1.50", "10.00")>>, <<Raw(0, 0, "2.25", "99.00")>> >>,
      \* three years, unit rows embedded in the newer files
      << <<Raw(0, 1, "1.50", "10.00")>>,
         <<Raw(1, 0, "m", "sec"), Raw(1, 0, "2.25", "nan")>>,
         <<Raw(2, 0, "m", "sec"), Raw(2, 1, "2.25", "7.50")>> >>,
      \* a non-numeric wave height that is not the unit marker
      << <<Raw(0, 1, "MM", "10.00")>>, <<Raw(2, 0, "1.50", "7.50")>> >>,
      \* a non-numeric peak period
      << <<Raw(0, 0, "1.50", "MM"), Raw(0, 1, "2.25", "7.50")>>,
         <<Raw(2, 0, "1.50", "7.50")>> >>,
      \* readings of one calendar year only
      << <<Raw(1, 0, "1.50", "10.00")>> >>,
      \* nothing but a unit row
      << <<Raw(0, 0, "m", "sec")>> >>,
      \* no year table at all
      << >> }

\* float(text) as astype(float) computes it, on the texts of DataDicts.
FloatOf ==
    ("1.50" :> 150) @@ ("2.25" :> 225) @@ ("7.50" :> 750) @@
    ("10.00" :> 1000) @@ ("99.00" :> 9900) @@ ("nan" :> NaN)

Coercible(s) == s \in DOMAIN FloatOf

\* ndbc.to_datetime_index: the date fields become the timestamp index.
to_datetime_index(tbl) ==
    [i \in 1..Len(tbl) |->
        [date |-> tbl[i].YY * TicksPerYear + tbl[i].TK,
         WVHT |-> tbl[i].WVHT, DPD |-> tbl[i].DPD]]

\* Faulty variant: every row with a non-numeric cell is dropped, not only unit rows.
RemoveNonNumericRows(tbl) ==
    SelectSeq(tbl, LAMBDA r : r.WVHT \in DOMAIN FloatOf /\ r.DPD \in DOMAIN FloatOf)

\* data[data["WVHT"] != "m"]
RemoveUnitRow(tbl) == SelectSeq(tbl, LAMBDA r : r.WVHT # "m")

\* astype(float) raises unless every remaining cell of the required
\* columns parses.
AllCoercible(tbl) ==
    \A i \in 1..Len(tbl) : Coercible(tbl[i].WVHT) /\ Coercible(tbl[i].DPD)

\* astype(float) and rename(columns=RENAME)
AsFloatRenamed(tbl) ==
    [i \in 1..Len(tbl) |->
        [date |-> tbl[i].date,
         hm0 |-> FloatOf[tbl[i].WVHT], tp |-> FloatOf[tbl[i].DPD]]]

RECURSIVE InsertByDate(_, _)
InsertByDate(r, s) ==
    IF s = <<>> THEN <<r>>
    ELSE IF r.date < Head(s).date THEN <<r>> \o s
    ELSE <<Head(s)>> \o InsertByDate(r, Tail(s))

\* data.sort_index()
RECURSIVE sort_index(_)
sort_index(tbl) ==
    IF tbl = <<>> THEN <<>>
    ELSE InsertByDate(tbl[Len(tbl)], sort_index(SubSeq(tbl, 1, Len(tbl) - 1)))

\* data.memory_usage(deep=True).sum() / 1e6
memory_usage(tbl) == Len(tbl) * MBPerRow

\* date column, reset_index, data_set_id = index + 1
WithDataSetId(tbl, id) ==
    [i \in 1..Len(tbl) |->
        [date |-> tbl[i].date, hm0 |-> tbl[i].hm0, tp |-> tbl[i].tp,
         data_set_id |-> id]]

\* ------------------------------------------------- text conversions
\* repr(float) as DataFrame.to_csv writes it: the shortest decimal that
\* reads back, at least one fractional digit; a missing value is an empty
\* field.  The text is <<whole, digit, ...>>.
FormatFloat(v) ==
    IF v = NaN THEN << >>
    ELSE IF v % 10 = 0 THEN <<v \div 100, (v % 100) \div 10>>
    ELSE <<v \div 100, (v % 100) \div 10, v % 10>>

\* read_csv's float parser; an empty field is a missing value.
ParseFloat(t) ==
    IF t = << >> THEN NaN
    ELSE IF Len(t) = 2 THEN t[1] * 100 + t[2] * 10
    ELSE t[1] * 100 + t[2] * 10 + t[3]

\* str(Timestamp) of a UTC-aware instant: calendar fields and the offset.
FormatDate(t) ==
    [year |-> t \div TicksPerYear, tick |-> t % TicksPerYear, utcoffset |-> 0]

\* pd.to_datetime(text, utc=True): the instant the text denotes.
ParseDateUtc(d) == d.year * TicksPerYear + d.tick - d.utcoffset

\* DataFrame.to_csv of the table without data_set_id: a header line, then
\* per row the positional index, the two value columns in the frame's
\* column order, and the date.
to_csv(tbl, cols) ==
    [header |-> <<"">> \o [j \in 1..Len(cols) |-> RENAME[cols[j]]] \o <<"date">>,
     lines |-> [i \in 1..Len(tbl) |->
                  <<i - 1>>
                  \o [j \in 1..Len(cols) |-> FormatFloat(tbl[i][RENAME[cols[j]]])]
                  \o <<FormatDate(tbl[i].date)>>]]

ColumnOf(csv, name) ==
    CHOOSE j \in 1..Len(csv.header) : csv.header[j] = name

\* pd.read_csv, then pd.to_datetime(d_binary["date"], utc=True): columns
\* are found by header name.
read_csv(csv) ==
    [i \in 1..Len(csv.lines) |->
        [date |-> ParseDateUtc(csv.lines[i][ColumnOf(csv, "date")]),
         hm0 |-> ParseFloat(csv.lines[i][ColumnOf(csv, "hm0")]),
         tp |-> ParseFloat(csv.lines[i][ColumnOf(csv, "tp")])]]

\* to_sql binds a missing float as NULL; read_sql gives NULL back as NaN.
SqlDouble(v) == IF v = NaN THEN NULL ELSE v
FromSqlDouble(v) == IF v = NULL THEN NaN ELSE v

\* DataFrame.to_sql(name="row_data", if_exists="append", index=False)
to_sql(tbl) ==
    [i \in 1..Len(tbl) |->
        [data_set_id |-> tbl[i].data_set_id, date |-> tbl[i].date,
         hm0 |-> SqlDouble(tbl[i].hm0), tp |-> SqlDouble(tbl[i].tp)]]

VARIABLES
    pc,            \* position of the script being run
    error,         \* the exception that ended a script, or "none"
    columns,       \* list(REQUIRED_COLUMNS): the set's iteration order
    index,         \* enumerate(found): 0-based position in found
    mem_used,      \* running total of Dataset sizes, MB
    data_sets,     \* id -> {"data": table, "data_size": MB}
    data_dict,     \* the fetched year tables of the station in hand
    data,          \* the station's table being built
    outcome,       \* history: what became of each station, by position
    key,           \* the writer loop's key
    row_data,      \* table row_data
    binary_data,   \* table binary_data
    data_size,     \* table data_size
    session_tz,    \* TimeZone of the benchmark's database session, in ticks
    requests,      \* the filtered scan's parameters
    pos,           \* position of the benchmark loop in hand
    data_log_rows,    \* measurements of the row representation
    data_log_binary,  \* measurements of the blob representation
    files          \* the reports written, by file name

accVars == <<index, mem_used, data_sets, data_dict, data, outcome>>
dbVars == <<row_data, binary_data, data_size>>
insertVars == <<columns, index, mem_used, data_sets, data_dict, data, outcome,
                key, row_data, binary_data, data_size>>
benchVars == <<session_tz, requests, pos, data_log_rows, data_log_binary, files>>

vars == <<pc, error, columns, index, mem_used, data_sets, data_dict, data,
          outcome, key, row_data, binary_data, data_size, session_tz,
          requests, pos, data_log_rows, data_log_binary, files>>

Init ==
    /\ pc = "gather"
    /\ error = "none"
    /\ columns \in {<<a, b>> : a, b \in REQUIRED_COLUMNS}
                      \ {<<a, a>> : a \in REQUIRED_COLUMNS}
    /\ index = 0
    /\ mem_used = 0
    /\ data_sets = << >>
    /\ data_dict = << >>
    /\ data = << >>
    /\ outcome = [i \in 1..NumStations |-> "pending"]
    /\ key = 0
    /\ row_data = << >>
    /\ binary_data = << >>
    /\ data_size = << >>
    /\ session_tz = 0
    /\ requests = << >>
    /\ pos = 0
    /\ data_log_rows = << >>
    /\ data_log_binary = << >>
    /\ files = << >>

\* ------------------------------------------- data_insert.py: gather data
\* Faulty variant: the budget check is "more than", not "at least".
InLoopStrictlyOver == index < Len(found) /\ mem_used <= mem_desired

\* The loop goes on to a station: one is left and the budget is not reached.
InLoop == index < Len(found) /\ mem_used < mem_desired

\* Faulty variant: the identifier is the 0-based loop index.
data_set_id_zero_based == index

\* index + 1: the identifier of the Dataset of the station in hand
data_set_id == index + 1

\* `continue`: on to the next station.
Skip(why) ==
    /\ pc' = "gather"
    /\ index' = index + 1
    /\ outcome' = [outcome EXCEPT ![index + 1] = why]
    /\ data_dict' = << >>
    /\ data' = << >>
    /\ UNCHANGED <<error, columns, mem_used, data_sets, key, dbVars, benchVars>>

\* `except KeyboardInterrupt: break`: the loop ends, the script goes on.
Break ==
    /\ pc' = "connect"
    /\ outcome' = [outcome EXCEPT ![index + 1] = "cancelled"]
    /\ data_dict' = << >>
    /\ data' = << >>
    /\ UNCHANGED <<error, columns, index, mem_used, data_sets, key, dbVars,
                   benchVars>>

\* for index, df in enumerate(found): no station is left.
Exhausted ==
    /\ pc = "gather"
    /\ index = Len(found)
    /\ pc' = "connect"
    /\ UNCHANGED <<error, columns, accVars, key, dbVars, benchVars>>

\* if mem_used >= mem_desired: break
BudgetReached ==
    /\ pc = "gather"
    /\ index < Len(found)
    /\ mem_used >= mem_desired
    /\ pc' = "connect"
    /\ UNCHANGED <<error, columns, accVars, key, dbVars, benchVars>>

\* data_dict = ndbc.request_data(...)
RequestData ==
    /\ pc = "gather"
    /\ InLoop
    /\ \E dd \in DataDicts : data_dict' = dd
    /\ pc' = "convert"
    /\ UNCHANGED <<error, columns, index, mem_used, data_sets, data, outcome,
                   key, dbVars, benchVars>>

\* Faulty variant: a failed fetch ends the loop.
RequestDataFailsBreaks ==
    /\ pc = "gather"
    /\ InLoop
    /\ pc' = "connect"
    /\ outcome' = [outcome EXCEPT ![index + 1] = "fetch_failed"]
    /\ UNCHANGED <<error, columns, index, mem_used, data_sets, data_dict, data,
                   key, dbVars, benchVars>>

\* request_data raises: `except: continue`
RequestDataFails ==
    /\ pc = "gather"
    /\ InLoop
    /\ Skip("fetch_failed")

\* KeyboardInterrupt inside request_data
RequestDataInterrupted ==
    /\ pc = "gather"
    /\ InLoop
    /\ Break

\* for year in data_dict: to_datetime_index; dfs.append
ConvertIndex ==
    /\ pc = "convert"
    /\ data_dict' = [y \in 1..Len(data_dict) |-> to_datetime_index(data_dict[y])]
    /\ pc' = "concat"
    /\ UNCHANGED <<error, columns, index, mem_used, data_sets, data, outcome,
                   key, dbVars, benchVars>>

\* data = pd.concat(dfs); an empty list raises: `except: continue`
Concat ==
    /\ pc = "concat"
    /\ IF data_dict = << >>
       THEN Skip("concat_failed")
       ELSE /\ data' = Flatten(data_dict)
            /\ pc' = "normalize"
            /\ UNCHANGED <<error, columns, index, mem_used, data_sets,
                           data_dict, outcome, key, dbVars, benchVars>>

ConcatInterrupted ==
    /\ pc = "concat"
    /\ Break

\* The try block of the normalization: unit rows out, required columns,
\* astype(float), sort_index, rename; any exception: `continue`.
Normalize ==
    /\ pc = "normalize"
    /\ LET kept == RemoveUnitRow(data) IN
       IF AllCoercible(kept)
       THEN /\ data' = sort_index(AsFloatRenamed(kept))
            /\ pc' = "finalize"
            /\ UNCHANGED <<error, columns, index, mem_used, data_sets,
                           data_dict, outcome, key, dbVars, benchVars>>
       ELSE Skip("schema_violation")

NormalizeInterrupted ==
    /\ pc = "normalize"
    /\ Break

\* data["date"], reset_index, data["data_set_id"] = index + 1
Finalize ==
    /\ pc = "finalize"
    /\ data' = WithDataSetId(data, data_set_id)
    /\ pc' = "new_entry"
    /\ UNCHANGED <<error, columns, index, mem_used, data_sets, data_dict,
                   outcome, key, dbVars, benchVars>>

\* data_sets[index + 1] = {}
NewEntry ==
    /\ pc = "new_entry"
    /\ data_sets' = (data_set_id :> << >>) @@ data_sets
    /\ pc' = "store_data"
    /\ UNCHANGED <<error, columns, index, mem_used, data_dict, data, outcome,
                   key, dbVars, benchVars>>

\* data_sets[index + 1]["data"] = data
StoreData ==
    /\ pc = "store_data"
    /\ data_sets' = [data_sets EXCEPT ![data_set_id] = [data |-> data]]
    /\ pc' = "store_size"
    /\ UNCHANGED <<error, columns, index, mem_used, data_dict, data, outcome,
                   key, dbVars, benchVars>>

\* data_sets[index + 1]["data_size"] = data.memory_usage(deep=True).sum() / 1e6
StoreSize ==
    /\ pc = "store_size"
    /\ data_sets' = [data_sets EXCEPT ![data_set_id] =
                        [data |-> data, data_size |-> memory_usage(data)]]
    /\ pc' = "add_mem"
    /\ UNCHANGED <<error, columns, index, mem_used, data_dict, data, outcome,
                   key, dbVars, benchVars>>

\* mem_used += data.memory_usage(deep=True).sum() / 1e6; next iteration
AddMemUsed ==
    /\ pc = "add_mem"
    /\ mem_used' = mem_used + memory_usage(data)
    /\ index' = index + 1
    /\ outcome' = [outcome EXCEPT ![index + 1] = "accepted"]
    /\ data_dict' = << >>
    /\ data' = << >>
    /\ pc' = "gather"
    /\ UNCHANGED <<error, columns, data_sets, key, dbVars, benchVars>>

\* KeyboardInterrupt outside the three try blocks (in the conversion loop
\* or in lines 179-187): nothing catches it, the script ends with a
\* traceback and the writer never runs.
InterruptedUncaught ==
    /\ pc \in {"convert", "finalize", "new_entry", "store_data", "store_size",
               "add_mem"}
    /\ pc' = "aborted"
    /\ error' = "KeyboardInterrupt"
    /\ outcome' = [outcome EXCEPT ![index + 1] = "cancelled"]
    /\ UNCHANGED <<columns, index, mem_used, data_sets, data_dict, data, key,
                   dbVars, benchVars>>

\* ------------------------------------------ data_insert.py: the writer
Keys == DOMAIN data_sets

NextKey == IF \E k \in Keys : k > key THEN Min({k \in Keys : k > key}) ELSE 0

\* pool = connect_pg(); with pool.connect() as c: for key in data_sets
Connect ==
    /\ pc = "connect"
    /\ key' = NextKey
    /\ pc' = IF NextKey = 0 THEN "insert_done" ELSE "to_sql"
    /\ UNCHANGED <<error, columns, accVars, dbVars, benchVars>>

\* data.to_sql(name="row_data", con=c, if_exists="append", index=False)
InsertRows ==
    /\ pc = "to_sql"
    /\ row_data' = row_data \o to_sql(data_sets[key].data)
    /\ pc' = "insert_binary"
    /\ UNCHANGED <<error, columns, accVars, key, binary_data, data_size,
                   benchVars>>

\* Faulty variant: the BlobRecord is keyed by the gather loop's leftover index.
InsertBinaryStaleId ==
    /\ pc = "insert_binary"
    /\ binary_data' = Append(binary_data,
                             [data_set_id |-> index + 1,
                              data |-> to_csv(data_sets[key].data, columns)])
    /\ pc' = "insert_size"
    /\ UNCHANGED <<error, columns, accVars, key, row_data, data_size,
                   benchVars>>

\* drop data_set_id, to_csv, INSERT into binary_data
InsertBinary ==
    /\ pc = "insert_binary"
    /\ binary_data' = Append(binary_data,
                             [data_set_id |-> key,
                              data |-> to_csv(data_sets[key].data, columns)])
    /\ pc' = "insert_size"
    /\ UNCHANGED <<error, columns, accVars, key, row_data, data_size,
                   benchVars>>

\* INSERT INTO data_size; then the next key, or the end of the script
InsertSize ==
    /\ pc = "insert_size"
    /\ data_size' = Append(data_size,
                           [data_set_id |-> key,
                            data_size_mb |-> data_sets[key].data_size])
    /\ key' = NextKey
    /\ pc' = IF NextKey = 0 THEN "insert_done" ELSE "to_sql"
    /\ UNCHANGED <<error, columns, accVars, row_data, binary_data, benchVars>>

\* A statement of the writer raises (the store is unavailable, or a
\* KeyboardInterrupt arrives): nothing catches it.  Every statement that
\* had run was committed on its own (autocommit).
WriterFails ==
    /\ pc \in {"connect", "to_sql", "insert_binary", "insert_size"}
    /\ \E e \in {"StorageUnavailable", "KeyboardInterrupt"} : error' = e
    /\ pc' = "insert_failed"
    /\ UNCHANGED <<columns, accVars, key, dbVars, benchVars>>

\* --------------------------------------- data_retrieval.py: benchmark
\* Offsets the session's TimeZone may have: connect_pg sets none, so the
\* server's default applies (UTC, or a zone behind it).
SessionOffsets == {0, -1}

\* extract(YEAR from date) on a timestamptz: the year in the session's zone.
ExtractYear(t, tz) == (t + tz) \div TicksPerYear

\* d_binary["date"].dt.year of a UTC-aware column
DtYear(t) == t \div TicksPerYear

IdsOf(tbl) == {tbl[i].data_set_id : i \in 1..Len(tbl)}

\* read_sql: the rows as a frame, NULL read as NaN, pd.to_datetime(utc=True)
read_sql(rows) ==
    [i \in 1..Len(rows) |->
        [data_set_id |-> rows[i].data_set_id, date |-> rows[i].date,
         hm0 |-> FromSqlDouble(rows[i].hm0), tp |-> FromSqlDouble(rows[i].tp)]]

\* SELECT * FROM row_data where data_set_id = {}
row_q(id) == read_sql(SelectSeq(row_data, LAMBDA r : r.data_set_id = id))

\* SELECT * from row_data WHERE data_set_id = {id}
\* and extract(YEAR from date) >= {start_year}
\* and extract(YEAR from date) <= {end_year}
row_q_filtered(param) ==
    read_sql(SelectSeq(row_data, LAMBDA r :
        /\ r.data_set_id = param.id
        /\ ExtractYear(r.date, session_tz) >= param.start_year
        /\ ExtractYear(r.date, session_tz) <= param.end_year))

\* SELECT * from binary_data where data_set_id = (:set_id)
binary_q(id) == SelectSeq(binary_data, LAMBDA r : r.data_set_id = id)

\* d_binary[mask]: the in-memory filter on the same inclusive bounds
Mask(tbl, param) ==
    SelectSeq(tbl, LAMBDA r :
        DtYear(r.date) >= param.start_year /\ DtYear(r.date) <= param.end_year)

\* Series.sum(): missing values are skipped.
RECURSIVE SumTp(_)
SumTp(tbl) ==
    IF tbl = << >> THEN 0
    ELSE (IF Head(tbl).tp = NaN THEN 0 ELSE Head(tbl).tp) + SumTp(Tail(tbl))

MinDate(tbl) == IF tbl = << >> THEN NaT ELSE Min({tbl[i].date : i \in 1..Len(tbl)})
MaxDate(tbl) == IF tbl = << >> THEN NaT ELSE Max({tbl[i].date : i \in 1..Len(tbl)})

\* One line of a data_log: set_id, min_date, max_date, tp_sum (the elapsed
\* time is wall-clock and left out).
LogLine(set_id, tbl) ==
    [set_id |-> set_id, min_date |-> MinDate(tbl), max_date |-> MaxDate(tbl),
     tp_sum |-> SumTp(tbl)]

\* SELECT data_set_id, min(date), max(date) from row_data group by data_set_id
req_info ==
    LET ids == IdsOf(row_data)
        Sorted[S \in SUBSET ids] ==
            IF S = {} THEN << >> ELSE <<Min(S)>> \o Sorted[S \ {Min(S)}]
    IN [i \in 1..Cardinality(ids) |->
          LET t == row_q(Sorted[ids][i]) IN
          [data_set_id |-> Sorted[ids][i], min |-> MinDate(t), max |-> MaxDate(t)]]

\* pool = connect_pg(); req_info = pd.read_sql(req_query); requests = []
StartRetrieval ==
    /\ pc \in {"insert_done", "insert_failed", "aborted"}
    /\ \E tz \in SessionOffsets : session_tz' = tz
    /\ error' = "none"
    /\ requests' = << >>
    /\ pos' = 1
    /\ pc' = IF req_info = << >> THEN "full_scan" ELSE "build_requests"
    /\ UNCHANGED <<insertVars, data_log_rows, data_log_binary, files>>

\* One turn of `for d in req_info.iterrows()`: random.sample(range(start,
\* end), 2) raises ValueError when the range holds fewer than two years.
\* read_sql hands min and max over as UTC-aware timestamps.
BuildRequest ==
    /\ pc = "build_requests"
    /\ LET d == req_info[pos]
           start == DtYear(d.min)
           end == DtYear(d.max)
       IN IF end - start < 2
          THEN /\ pc' = "crashed"
               /\ error' = "ValueError"
               /\ UNCHANGED <<requests, pos>>
          ELSE /\ \E y1, y2 \in start..(end - 1) :
                    /\ y1 < y2
                    /\ requests' = Append(requests,
                          [id |-> d.data_set_id, start_year |-> y1, end_year |-> y2])
               /\ pos' = IF pos = Len(req_info) THEN 1 ELSE pos + 1
               /\ pc' = IF pos = Len(req_info) THEN "full_scan" ELSE pc
               /\ UNCHANGED error
    /\ UNCHANGED <<insertVars, session_tz, data_log_rows, data_log_binary, files>>

\* One turn of `for id in availabe_ids`: measure the rows, then the blob.
\* res[0] raises IndexError when binary_data holds no record of the id.
FullScan ==
    /\ pc = "full_scan"
    /\ pos <= Len(availabe_ids)
    /\ LET id == availabe_ids[pos]
           d_rows == row_q(id)
           res == binary_q(id)
       IN /\ data_log_rows' = Append(data_log_rows, LogLine(IdsOf(d_rows), d_rows))
          /\ IF res = << >>
             THEN /\ pc' = "crashed"
                  /\ error' = "IndexError"
                  /\ UNCHANGED <<pos, data_log_binary>>
             ELSE /\ data_log_binary' = Append(data_log_binary,
                        LogLine(res[1].data_set_id, read_csv(res[1].data)))
                  /\ pos' = pos + 1
                  /\ UNCHANGED <<pc, error>>
    /\ UNCHANGED <<insertVars, session_tz, requests, files>>

\* to_csv of the two full-scan logs; the logs are set up anew.
WriteAllYears ==
    /\ pc = "full_scan"
    /\ pos > Len(availabe_ids)
    /\ files' = ("all_years_rows.csv" :> data_log_rows) @@
                ("all_years_binary.csv" :> data_log_binary) @@ files
    /\ data_log_rows' = << >>
    /\ data_log_binary' = << >>
    /\ pos' = 1
    /\ pc' = "filtered_scan"
    /\ UNCHANGED <<error, insertVars, session_tz, requests>>

\* One turn of `for param in requests`: the year range is part of the row
\* query, and a mask on the deserialized blob.
FilteredScan ==
    /\ pc = "filtered_scan"
    /\ pos <= Len(requests)
    /\ LET param == requests[pos]
           d_rows == row_q_filtered(param)
           res == binary_q(param.id)
       IN /\ data_log_rows' = Append(data_log_rows, LogLine(IdsOf(d_rows), d_rows))
          /\ IF res = << >>
             THEN /\ pc' = "crashed"
                  /\ error' = "IndexError"
                  /\ UNCHANGED <<pos, data_log_binary>>
             ELSE /\ data_log_binary' = Append(data_log_binary,
                        LogLine(res[1].data_set_id,
                                Mask(read_csv(res[1].data), param)))
                  /\ pos' = pos + 1
                  /\ UNCHANGED <<pc, error>>
    /\ UNCHANGED <<insertVars, session_tz, requests, files>>

\* to_csv of the two filtered-scan logs; the script ends.
WriteFiltered ==
    /\ pc = "filtered_scan"
    /\ pos > Len(requests)
    /\ files' = ("filtered_years_rows.csv" :> data_log_rows) @@
                ("filtered_years_binary.csv" :> data_log_binary) @@ files
    /\ pc' = "done"
    /\ UNCHANGED <<error, insertVars, session_tz, requests, pos, data_log_rows,
                   data_log_binary>>

Next ==
    \/ Exhausted \/ BudgetReached
    \/ RequestData \/ RequestDataFails \/ RequestDataInterrupted
    \/ ConvertIndex
    \/ Concat \/ ConcatInterrupted
    \/ Normalize \/ NormalizeInterrupted
    \/ Finalize \/ NewEntry \/ StoreData \/ StoreSize \/ AddMemUsed
    \/ InterruptedUncaught
    \/ Connect \/ InsertRows \/ InsertBinary \/ InsertSize \/ WriterFails
    \/ StartRetrieval \/ BuildRequest
    \/ FullScan \/ WriteAllYears \/ FilteredScan \/ WriteFiltered

Spec == Init /\ [][Next]_vars

\* ------------------------------------------------------------- claims
\* The gather loop is between two stations, or the writer is running.
AtLoopLevel ==
    pc \in {"gather", "connect", "to_sql", "insert_binary", "insert_size",
            "insert_done", "insert_failed"}

\* The gather loop has ended and the script went on to the writer.
GatherOver ==
    pc \in {"connect", "to_sql", "insert_binary", "insert_size",
            "insert_done", "insert_failed"}

\* A station is being processed.
InStation ==
    pc \in {"convert", "concat", "normalize", "finalize", "new_entry",
            "store_data", "store_size", "add_mem"}

Range(s) == {s[i] : i \in 1..Len(s)}

Complete(e) == DOMAIN e = {"data", "data_size"}

Cancelled == \E i \in 1..NumStations : outcome[i] = "cancelled"

Count(tbl, id) == Len(SelectSeq(tbl, LAMBDA r : r.data_set_id = id))

RECURSIVE SumSizes(_)
SumSizes(S) ==
    IF S = {} THEN 0
    ELSE LET k == Min(S) IN data_sets[k].data_size + SumSizes(S \ {k})

Agree(r, b) ==
    r.tp_sum = b.tp_sum /\ r.min_date = b.min_date /\ r.max_date = b.max_date

LogsAgree(rows, binary) ==
    \A i \in 1..Len(binary) : Agree(rows[i], binary[i])

FullScanLogsAgree ==
    /\ pc = "full_scan" => LogsAgree(data_log_rows, data_log_binary)
    /\ "all_years_rows.csv" \in DOMAIN files =>
          LogsAgree(files["all_years_rows.csv"], files["all_years_binary.csv"])

FilteredScanLogsAgree ==
    /\ pc = "filtered_scan" => LogsAgree(data_log_rows, data_log_binary)
    /\ "filtered_years_rows.csv" \in DOMAIN files =>
          LogsAgree(files["filtered_years_rows.csv"],
                    files["filtered_years_binary.csv"])

\* C1: for every Dataset of one writer pass and for both access patterns,
\* the tp sum, the minimum and the maximum timestamp measured on the rows
\* equal those measured on the deserialized blob.
C1_RepresentationsAgree == FullScanLogsAgree /\ FilteredScanLogsAgree

\* Support for C1 (not the claim): the full scan always agrees, and the
\* filtered scan agrees in a session whose TimeZone is UTC.
C1_FullScanAgrees == FullScanLogsAgree

C1_FilteredAgreesInUtcSession == session_tz = 0 => FilteredScanLogsAgree

\* C2: from empty tables, once the writer pass has completed, storage holds
\* exactly one BlobRecord and one SizeRecord for every accumulated Dataset
\* identifier, and none for any other identifier.
C2_OneBlobOneSizePerDataset ==
    pc = "insert_done" =>
        /\ IdsOf(binary_data) = Keys
        /\ IdsOf(data_size) = Keys
        /\ \A id \in Keys : Count(binary_data, id) = 1 /\ Count(data_size, id) = 1

C2_Witness ==
    pc = "insert_done" /\ Cardinality(Keys) >= 2 /\ Len(binary_data) >= 2

\* C3: no station is taken once the running total has reached the budget;
\* the Dataset that crosses the budget is included whole; the total before
\* the last Dataset was added is strictly below the budget, so the
\* overshoot is less than the last Dataset's size.
C3_BudgetBoundsOvershoot ==
    /\ InStation => mem_used < mem_desired
    /\ (AtLoopLevel /\ Keys # {}) =>
          /\ \A k \in Keys : Complete(data_sets[k])
          /\ mem_used = SumSizes(Keys)
          /\ data_sets[Max(Keys)].data_size =
                memory_usage(data_sets[Max(Keys)].data)
          /\ mem_used - data_sets[Max(Keys)].data_size < mem_desired

C3_Witness ==
    /\ pc = "connect"
    /\ index < Len(found)
    /\ mem_used > mem_desired
    /\ ~Cancelled

\* C4: a station whose fetch fails adds no Dataset and no size, and the loop
\* goes on: it ends only when the stations are exhausted, the budget is
\* reached or the caller cancels.
C4_FetchFailureContained ==
    /\ \A i \in 1..NumStations :
          outcome[i] = "fetch_failed" => (i \notin Keys /\ index >= i)
    /\ AtLoopLevel => mem_used = SumSizes(Keys)
    /\ (GatherOver /\ ~Cancelled) =>
          (index = Len(found) \/ mem_used >= mem_desired)

C4_Witness ==
    \E i, j \in 1..NumStations :
        i < j /\ outcome[i] = "fetch_failed" /\ outcome[j] = "accepted"

\* The lines of the reports that record a ConsistencyViolation, by file
\* and line number.
ConsistencyViolations ==
    UNION {{<<f, i>> : i \in {j \in 1..Len(files[f]) :
                                "violation" \in DOMAIN files[f][j]}} :
           f \in DOMAIN files}

Mismatches(pattern, rows, binary) ==
    {[set_id |-> binary[i].set_id, pattern |-> pattern] :
        i \in {j \in 1..Len(binary) : ~Agree(rows[j], binary[j])}}

\* C5: whenever the row and the blob measurements of a Dataset differ under
\* an access pattern, the output holds a ConsistencyViolation tagged with
\* the Dataset and the pattern; no run ends with an unreported mismatch.
C5_MismatchSurfaced ==
    pc = "done" =>
        \A m \in Mismatches("full", files["all_years_rows.csv"],
                            files["all_years_binary.csv"])
              \cup Mismatches("filtered", files["filtered_years_rows.csv"],
                              files["filtered_years_binary.csv"]) :
            \E v \in ConsistencyViolations :
                files[v[1]][v[2]].violation = m

\* C6: whenever the writer is not in the middle of a Dataset (it completed,
\* or a storage failure or a cancellation ended it), each Dataset has all
\* of its RowRecords, its BlobRecord and its SizeRecord, or none of them.
C6_WriterAtomicPerDataset ==
    pc \in {"insert_done", "insert_failed"} =>
        \A id \in Keys :
            \/ /\ SelectSeq(row_data, LAMBDA r : r.data_set_id = id)
                    = to_sql(data_sets[id].data)
               /\ Count(binary_data, id) = 1
               /\ Count(data_size, id) = 1
            \/ /\ Count(row_data, id) = 0
               /\ Count(binary_data, id) = 0
               /\ Count(data_size, id) = 0

\* C7: a cancellation while a station is processed ends the accumulation
\* without failing the run, and leaves exactly the Datasets finalized
\* before it, each with data and size, no partial entry.
C7_CancellationEndsCleanly ==
    (Cancelled /\ (AtLoopLevel \/ pc = "aborted")) =>
        /\ pc # "aborted"
        /\ \A k \in Keys : Complete(data_sets[k])
        /\ Keys = {i \in 1..NumStations : outcome[i] = "accepted"}

\* Support for C7 (not the claim): a cancellation during the fetch, the
\* concatenation or the normalization is caught and ends the loop cleanly.
C7_CaughtCancellationEndsCleanly ==
    (Cancelled /\ GatherOver) =>
        /\ \A k \in Keys : Complete(data_sets[k])
        /\ Keys = {i \in 1..NumStations : outcome[i] = "accepted"}

\* C8 as stated: identifiers are 1-based and skipped stations consume none,
\* so the identifiers assigned are exactly 1..n for n accepted stations.
C8_IdsContiguous ==
    AtLoopLevel => Keys = 1..Cardinality(Keys)

\* C8 amended: the identifier of a Dataset is its station's 1-based
\* position in discovery order, skipped stations included, and every row of
\* the Dataset carries it; the identifiers are the accepted positions.
C8_IdsAreStationPositions ==
    AtLoopLevel =>
        /\ Keys = {i \in 1..NumStations : outcome[i] = "accepted"}
        /\ Keys \subseteq 1..index
        /\ \A k \in Keys :
              \A i \in 1..Len(data_sets[k].data) :
                  data_sets[k].data[i].data_set_id = k

C8_Witness ==
    /\ pc = "insert_done"
    /\ 1 \notin Keys
    /\ {2, 3} \subseteq Keys
    /\ Len(data_sets[2].data) > 0

\* C9: the full scan visits exactly the identifiers present in storage and
\* runs to completion for any set of persisted identifiers, never failing
\* on a missing BlobRecord.  Stated for a store that a completed writer
\* pass filled with at least one Dataset.
C9_FullScanVisitsPersistedIds ==
    (IdsOf(binary_data) # {} /\ IdsOf(binary_data) = Keys
        /\ IdsOf(data_size) = Keys) =>
        /\ ~(pc = "crashed" /\ error = "IndexError")
        /\ "all_years_binary.csv" \in DOMAIN files =>
              {l.set_id : l \in Range(files["all_years_binary.csv"])}
                 = IdsOf(binary_data)

SortedByDate(tbl) ==
    \A i, j \in 1..Len(tbl) : i < j => tbl[i].date <= tbl[j].date

SameRows(a, b) ==
    /\ Len(a) = Len(b)
    /\ \A r \in Range(a) \cup Range(b) :
          Len(SelectSeq(a, LAMBDA x : x = r)) = Len(SelectSeq(b, LAMBDA x : x = r))

CoercibleRow(r) == r.WVHT \in DOMAIN FloatOf /\ r.DPD \in DOMAIN FloatOf

AsObservation(r) ==
    [date |-> r.date, hm0 |-> FloatOf[r.WVHT], tp |-> FloatOf[r.DPD]]

Observations(tbl) == [i \in 1..Len(tbl) |-> AsObservation(tbl[i])]

\* The step is the normalization of the station in hand, not its
\* cancellation.
NormalizationStep ==
    pc = "normalize" /\ pc' # pc /\ outcome'[index + 1] # "cancelled"

\* C10 as stated: exactly the rows whose WVHT or DPD is not coercible are
\* dropped, and the station yields the remaining rows sorted by timestamp.
C10_RowLevelDrop ==
    [][NormalizationStep =>
          /\ pc' = "finalize"
          /\ SortedByDate(data')
          /\ SameRows(data', Observations(SelectSeq(data, CoercibleRow)))]_vars

\* C10 amended: the rows whose WVHT is the unit marker "m" are dropped; if
\* WVHT and DPD of every remaining row are coercible the station yields all
\* remaining rows sorted by timestamp; otherwise the station is skipped and
\* yields no Dataset.
C10_UnitRowsDroppedElseStationSkipped ==
    [][NormalizationStep =>
          LET kept == SelectSeq(data, LAMBDA r : r.WVHT # "m") IN
          IF \A i \in 1..Len(kept) : CoercibleRow(kept[i])
          THEN /\ pc' = "finalize"
               /\ SortedByDate(data')
               /\ SameRows(data', Observations(kept))
          ELSE /\ pc' = "gather"
               /\ index' = index + 1
               /\ data_sets' = data_sets
               /\ mem_used' = mem_used]_vars

C10_Witness ==
    \E i, j \in 1..NumStations :
        /\ outcome[i] = "schema_violation"
        /\ i \notin Keys
        /\ j \in Keys
        /\ Complete(data_sets[j])
        /\ Len(data_sets[j].data) = 3
=============================================================================
